---- MODULE Spec2Model ----
(***************************************************************************)
(* A model of phecs.World (src/phecs/phecs.py): the entity/component store *)
(* and its query engine.                                                   *)
(*                                                                         *)
(* An Entity is modelled by its identifier (Entity.__eq__ and __hash__ use *)
(* nothing else).  World.entities, a Python dict, is a sequence of         *)
(* InternalEntity records in insertion order with unique keys.  The        *)
(* per-entity dict `components` is a set of <<type, component>> pairs.     *)
(* A component is an object reference; TypeOf gives type(component).       *)
(*                                                                         *)
(* World is used by one thread, one call at a time: `last` holds the call  *)
(* that has just returned together with its result, and Return is the      *)
(* caller taking that result before it makes its next call.                *)
(*                                                                         *)
(* Spec consumes every sequence to its end inside the call that made it.   *)
(* SpecScan keeps one handle returned by find open in `scan`, takes its    *)
(* elements one at a time, and lets World calls run between the steps.     *)
(*                                                                         *)
(* `fields` is what the component objects hold (Position.x, ...).  World    *)
(* never reads or writes it; in SpecLive the caller assigns to a field of  *)
(* an object that a query has handed back.                                 *)
(***************************************************************************)
EXTENDS Integers, Sequences, FiniteSets

VARIABLES next_entity_id, entities, issued, last, scan, fields

vars == <<next_entity_id, entities, issued, last, scan, fields>>

-----------------------------------------------------------------------------
(* Bounds *)

\* The number of spawn calls explored; entity identifiers range over 0..MaxSpawns-1.
MaxSpawns == 2

\* The longest *components argument list explored.
MaxArgs == 2

\* The number of World calls explored while one handle returned by find is open.
MaxScanCalls == 2

-----------------------------------------------------------------------------
(* Values *)

Types == {"Position", "Velocity"}

Components == {"p1", "p2", "v1"}

\* type(component)
TypeOf(c) == IF c \in {"p1", "p2"} THEN "Position" ELSE "Velocity"

EntityIds == 0 .. (MaxSpawns - 1)

NoEntity == -1

ComponentArgs == UNION {[1 .. n -> Components] : n \in 0 .. MaxArgs}

\* The *component_types argument lists explored.
TypeArgs ==
    {<<>>, <<"Position">>, <<"Velocity">>,
     <<"Position", "Velocity">>, <<"Velocity", "Position">>}

\* A has= / without= argument: None, a single type, or a list/tuple of types.
FNone == [kind |-> "none", ts |-> <<>>]

FType(t) == [kind |-> "type", ts |-> <<t>>]

FList(ts) == [kind |-> "list", ts |-> ts]

FilterArgs ==
    {FNone, FType("Position"), FType("Velocity"),
     FList(<<>>), FList(<<"Position", "Velocity">>)}

-----------------------------------------------------------------------------
(* The per-entity components dict *)

\* `t in internal_entity.components`
HasType(cs, t) == \E p \in cs : p[1] = t

\* `internal_entity.components[t]`
ComponentOf(cs, t) == (CHOOSE p \in cs : p[1] = t)[2]

SetComponentNoOverwrite(cs, c) ==
    IF HasType(cs, TypeOf(c)) THEN cs ELSE cs \cup {<<TypeOf(c), c>>}

\* `components[type(component)] = component`
SetComponent(cs, c) ==
    {p \in cs : p[1] # TypeOf(c)} \cup {<<TypeOf(c), c>>}

\* `del components[t]`
DelComponent(cs, t) == {p \in cs : p[1] # t}

\* `for component in components: ...components[type(component)] = component`
RECURSIVE AddComponents(_, _)
AddComponents(cs, comps) ==
    IF comps = <<>> THEN cs
    ELSE AddComponents(SetComponent(cs, Head(comps)), Tail(comps))

\* `components.values()`
Values(cs) == {p[2] : p \in cs}

\* InternalEntity(entity), then the components loop
InternalEntity(e, comps) ==
    [entity |-> e, components |-> AddComponents({}, comps)]

-----------------------------------------------------------------------------
(* The World.entities dict *)

Keys(es) == {es[i].entity : i \in DOMAIN es}

IndexOf(es, e) == CHOOSE i \in DOMAIN es : es[i].entity = e

\* `self.entities[entity]`, for a key that is present
Lookup(es, e) == es[IndexOf(es, e)]

SetEntityMovesToEnd(es, ie) ==
    Append(SelectSeq(es, LAMBDA x : x.entity # ie.entity), ie)

\* `self.entities[entity] = internal_entity`: a present key keeps its place
SetEntity(es, ie) ==
    IF ie.entity \in Keys(es)
    THEN [es EXCEPT ![IndexOf(es, ie.entity)] = ie]
    ELSE Append(es, ie)

DelEntityAndAfter(es, e) == SubSeq(es, 1, IndexOf(es, e) - 1)

\* `del self.entities[entity]`
DelEntity(es, e) == SelectSeq(es, LAMBDA ie : ie.entity # e)

-----------------------------------------------------------------------------
(* The call record *)

Call(op, e, comps, types, has, without, ret, fault) ==
    [op |-> op, entity |-> e, comps |-> comps, types |-> types,
     has |-> has, without |-> without, ret |-> ret, fault |-> fault]

NoCall == Call("none", NoEntity, <<>>, <<>>, FNone, FNone, "None", "none")

\* A call on one entity with no other argument.
EntityCall(op, e, ret) == Call(op, e, <<>>, <<>>, FNone, FNone, ret, "none")

Idle == last.op = "none"

\* No handle returned by find is held.
NoScan ==
    [state |-> "none", op |-> "find", entity |-> NoEntity,
     types |-> <<>>, has |-> FNone, without |-> FNone,
     keysChecked |-> FALSE, atCall |-> 0, used |-> 0, left |-> 0, pos |-> 0,
     yielded |-> <<>>, stable |-> {}, added |-> 0, calls |-> 0,
     fault |-> "none", stopped |-> FALSE]

Init ==
    /\ next_entity_id = 0
    /\ entities = <<>>
    /\ issued = <<>>
    /\ last = NoCall
    /\ scan = NoScan
    /\ fields = [c \in Components |-> 0]

-----------------------------------------------------------------------------
(* Lifecycle operations *)

NewEntityIdReusesSlot == Len(entities)

\* `Entity(self.next_entity_id)`
NewEntityId == next_entity_id

AdvanceBy2(n) == n + 2

\* `self.next_entity_id += 1`
Advance(n) == n + 1

Spawn(comps) ==
    /\ Idle
    /\ Len(issued) < MaxSpawns
    /\ LET entity == NewEntityId IN
        /\ next_entity_id' = Advance(next_entity_id)
        /\ entities' = SetEntity(entities, InternalEntity(entity, comps))
        /\ issued' = Append(issued, entity)
        /\ last' = Call("spawn", NoEntity, comps, <<>>, FNone, FNone, entity, "none")

SpawnAtMerges(e, comps) ==
    /\ Idle
    /\ entities' =
          IF e \in Keys(entities)
          THEN [entities EXCEPT
                  ![IndexOf(entities, e)].components = AddComponents(@, comps)]
          ELSE Append(entities, InternalEntity(e, comps))
    /\ last' = Call("spawn_at", e, comps, <<>>, FNone, FNone, "None", "none")
    /\ UNCHANGED <<next_entity_id, issued>>

SpawnAt(e, comps) ==
    /\ Idle
    /\ entities' = SetEntity(entities, InternalEntity(e, comps))
    /\ last' = Call("spawn_at", e, comps, <<>>, FNone, FNone, "None", "none")
    /\ UNCHANGED <<next_entity_id, issued>>

\* World.despawn
DespawnNeverFails(es, e) ==
    [entities |-> DelEntity(es, e), ret |-> "None"]

Despawn_(es, e) ==
    IF e \in Keys(es)
    THEN [entities |-> DelEntity(es, e), ret |-> "None"]
    ELSE [entities |-> es, ret |-> "NoSuchEntity"]

Despawn(e) ==
    /\ Idle
    /\ LET r == Despawn_(entities, e) IN
        /\ entities' = r.entities
        /\ last' = EntityCall("despawn", e, r.ret)
    /\ UNCHANGED <<next_entity_id, issued>>

ClearResetsAllocator ==
    /\ Idle
    /\ entities' = <<>>
    /\ next_entity_id' = 0
    /\ last' = EntityCall("clear", NoEntity, "None")
    /\ UNCHANGED issued

\* World.clear
Clear ==
    /\ Idle
    /\ entities' = <<>>
    /\ last' = EntityCall("clear", NoEntity, "None")
    /\ UNCHANGED <<next_entity_id, issued>>

-----------------------------------------------------------------------------
(* Component mutation *)

InsertCreatesEntity(es, e, comps) ==
    IF e \in Keys(es)
    THEN [entities |->
            [es EXCEPT ![IndexOf(es, e)].components = AddComponents(@, comps)],
          ret |-> "None"]
    ELSE [entities |-> SetEntity(es, InternalEntity(e, comps)), ret |-> "None"]

\* World.insert
Insert_(es, e, comps) ==
    IF e \in Keys(es)
    THEN [entities |->
            [es EXCEPT ![IndexOf(es, e)].components = AddComponents(@, comps)],
          ret |-> "None"]
    ELSE [entities |-> es, ret |-> "NoSuchEntity"]

Insert(e, comps) ==
    /\ Idle
    /\ LET r == Insert_(entities, e, comps) IN
        /\ entities' = r.entities
        /\ last' = Call("insert", e, comps, <<>>, FNone, FNone, r.ret, "none")
    /\ UNCHANGED <<next_entity_id, issued>>

\* The loop of World.remove over component_types: [components, fault].
RECURSIVE RemoveTypesUnchecked(_, _)
RemoveTypesUnchecked(cs, types) ==
    IF types = <<>> THEN [components |-> cs, fault |-> "none"]
    ELSE IF HasType(cs, Head(types))
         THEN RemoveTypesUnchecked(DelComponent(cs, Head(types)), Tail(types))
         ELSE [components |-> cs, fault |-> "KeyError"]

RECURSIVE RemoveTypes(_, _)
RemoveTypes(cs, types) ==
    IF types = <<>> THEN [components |-> cs, fault |-> "none"]
    ELSE IF HasType(cs, Head(types))
         THEN RemoveTypes(DelComponent(cs, Head(types)), Tail(types))
         ELSE RemoveTypes(cs, Tail(types))

\* World.remove
Remove_(es, e, types) ==
    IF e \in Keys(es)
    THEN LET r == RemoveTypes(Lookup(es, e).components, types) IN
         [entities |-> [es EXCEPT ![IndexOf(es, e)].components = r.components],
          fault |-> r.fault]
    ELSE [entities |-> es, fault |-> "none"]

Remove(e, types) ==
    /\ Idle
    /\ LET r == Remove_(entities, e, types) IN
        /\ entities' = r.entities
        /\ last' = Call("remove", e, <<>>, types, FNone, FNone, "None", r.fault)
    /\ UNCHANGED <<next_entity_id, issued>>

TakeKeepsEntity(es, e) ==
    IF e \in Keys(es)
    THEN [entities |-> es, ret |-> Values(Lookup(es, e).components)]
    ELSE [entities |-> es, ret |-> {}]

\* World.take
Take_(es, e) ==
    IF e \in Keys(es)
    THEN [entities |-> Despawn_(es, e).entities,
          ret |-> Values(Lookup(es, e).components)]
    ELSE [entities |-> es, ret |-> {}]

Take(e) ==
    /\ Idle
    /\ LET r == Take_(entities, e) IN
        /\ entities' = r.entities
        /\ last' = EntityCall("take", e, r.ret)
    /\ UNCHANGED <<next_entity_id, issued>>

-----------------------------------------------------------------------------
(* Queries *)

ContainsBelowAllocator(es, e) == e < next_entity_id

\* World.contains: `entity in self.entities`
Contains(es, e) == e \in Keys(es)

\* `if has:` on a has= / without= argument
Truthy(f) == f.kind = "type" \/ (f.kind = "list" /\ f.ts # <<>>)

\* World.find: a single type becomes a one-element list, None stays None
Normalize(f) == IF f.kind = "type" THEN FList(f.ts) ELSE f

AnyMissingFirstOnly(cs, ts) == ts # <<>> /\ ~HasType(cs, ts[1])

\* `any(c not in internal_entity.components for c in ts)`
AnyMissing(cs, ts) == \E i \in DOMAIN ts : ~HasType(cs, ts[i])

\* `any(c in internal_entity.components for c in ts)`
AnyPresent(cs, ts) == \E i \in DOMAIN ts : HasType(cs, ts[i])

\* `all(c in internal_entity.components for c in component_types)`
AllPresent(cs, ts) == \A i \in DOMAIN ts : HasType(cs, ts[i])

ResultTupleReversed(ie, types) ==
    [entity |-> ie.entity,
     comps |-> [i \in DOMAIN types |->
                  ComponentOf(ie.components, types[Len(types) + 1 - i])]]

\* `(internal_entity.entity, *(internal_entity.components[c] for c in component_types))`
ResultTuple(ie, types) ==
    [entity |-> ie.entity,
     comps |-> [i \in DOMAIN types |-> ComponentOf(ie.components, types[i])]]

\* One pass of the loop body of World.find: whether internal_entity is yielded.
FindYields(ie, types, has, without) ==
    /\ ~(Truthy(has) /\ AnyMissing(ie.components, has.ts))
    /\ ~(Truthy(without) /\ AnyPresent(ie.components, without.ts))
    /\ AllPresent(ie.components, types)

\* World.find, consumed to its end with no call in between.
Find_(es, types, has, without) ==
    LET h == Normalize(has)
        w == Normalize(without)
        yielded == SelectSeq(es, LAMBDA ie : FindYields(ie, types, h, w))
    IN [i \in DOMAIN yielded |-> ResultTuple(yielded[i], types)]

\* `yield from []`: yields nothing, and the generator goes on to its next statement
YieldFromEmpty == <<>>

FindOnYieldsForMissing(es, e, types, has, without) ==
    IF e \notin Keys(es)
    THEN [ret |-> <<[entity |-> e, comps |-> <<>>]>>, fault |-> "none"]
    ELSE [ret |-> IF AllPresent(Lookup(es, e).components, types)
                  THEN <<ResultTuple(Lookup(es, e), types)>> ELSE <<>>,
          fault |-> "none"]

\* World.find_on, consumed to its end: what it yielded and the fault that ended it.
FindOn_(es, e, types, has, without) ==
    IF e \notin Keys(es)
    THEN [ret |-> YieldFromEmpty, fault |-> "KeyError"]
    ELSE LET ie == Lookup(es, e)
             hasBlock ==
                IF Truthy(has) /\ AnyMissing(ie.components, has.ts)
                THEN YieldFromEmpty ELSE <<>>
             withoutBlock ==
                IF Truthy(without) /\ AnyPresent(ie.components, without.ts)
                THEN YieldFromEmpty ELSE <<>>
             found ==
                IF AllPresent(ie.components, types)
                THEN <<ResultTuple(ie, types)>> ELSE <<>>
         IN [ret |-> hasBlock \o withoutBlock \o found \o YieldFromEmpty,
             fault |-> "none"]

GetFromAnyEntity(es, e, t) ==
    IF \E i \in DOMAIN es : HasType(es[i].components, t)
    THEN ComponentOf(
            es[CHOOSE i \in DOMAIN es : HasType(es[i].components, t)].components, t)
    ELSE "None"

GetReturnsEqualObject(es, e, t) ==
    IF e \in Keys(es) /\ HasType(Lookup(es, e).components, t)
    THEN LET c == ComponentOf(Lookup(es, e).components, t) IN
         IF \E d \in Components \ {c} : TypeOf(d) = t
         THEN CHOOSE d \in Components \ {c} : TypeOf(d) = t
         ELSE c
    ELSE "None"

\* World.get
Get_(es, e, t) ==
    IF e \in Keys(es) /\ HasType(Lookup(es, e).components, t)
    THEN ComponentOf(Lookup(es, e).components, t)
    ELSE "None"

SatisfiesIgnoresWithout(es, e, has, without) ==
    IF e \notin Keys(es) THEN FALSE
    ELSE ~(Truthy(has) /\ AnyMissing(Lookup(es, e).components, has.ts))

\* World.satisfies
Satisfies_(es, e, has, without) ==
    IF e \notin Keys(es) THEN FALSE
    ELSE LET cs == Lookup(es, e).components IN
         IF Truthy(has) /\ AnyMissing(cs, has.ts) THEN FALSE
         ELSE IF Truthy(without) /\ AnyPresent(cs, without.ts) THEN FALSE
         ELSE TRUE

IsEmptyOrMissing(es, e) == ~(e \in Keys(es) /\ Lookup(es, e).components # {})

\* World.is_empty
IsEmpty_(es, e) == e \in Keys(es) /\ Lookup(es, e).components = {}

IterNewestFirst(es) == [i \in DOMAIN es |-> es[Len(es) + 1 - i].entity]

\* World.iter, consumed to its end with no call in between
Iter_(es) == [i \in DOMAIN es |-> es[i].entity]

\* World.iter_every, consumed to its end with no call in between
IterEvery_(es) ==
    [i \in DOMAIN es |->
        [entity |-> es[i].entity, comps |-> Values(es[i].components)]]

QueryRegistersEntity(call) ==
    /\ Idle
    /\ last' = call
    /\ entities' = IF call.entity \in EntityIds \ Keys(entities)
                   THEN Append(entities, InternalEntity(call.entity, <<>>))
                   ELSE entities
    /\ UNCHANGED <<next_entity_id, issued>>

Query(call) ==
    /\ Idle
    /\ last' = call
    /\ UNCHANGED <<next_entity_id, entities, issued>>

ContainsCall(e) == Query(EntityCall("contains", e, Contains(entities, e)))

Find(types, has, without) ==
    Query(Call("find", NoEntity, <<>>, types, has, without,
               Find_(entities, types, has, without), "none"))

FindOn(e, types, has, without) ==
    LET r == FindOn_(entities, e, types, has, without) IN
    Query(Call("find_on", e, <<>>, types, has, without, r.ret, r.fault))

Get(e, t) ==
    Query(Call("get", e, <<>>, <<t>>, FNone, FNone, Get_(entities, e, t), "none"))

Satisfies(e, has, without) ==
    Query(Call("satisfies", e, <<>>, <<>>, has, without,
               Satisfies_(entities, e, has, without), "none"))

IsEmpty(e) == Query(EntityCall("is_empty", e, IsEmpty_(entities, e)))

Iter == Query(EntityCall("iter", NoEntity, Iter_(entities)))

IterEvery == Query(EntityCall("iter_every", NoEntity, IterEvery_(entities)))

-----------------------------------------------------------------------------

\* The caller takes the result of the call that returned; the next call follows.
Return ==
    /\ ~Idle
    /\ last' = NoCall
    /\ UNCHANGED <<next_entity_id, entities, issued>>

\* One call at a time: a call is made only once the previous one has returned.
Next ==
    \/ Idle /\ UNCHANGED <<scan, fields>> /\ \E comps \in ComponentArgs : Spawn(comps)
    \/ Idle /\ UNCHANGED <<scan, fields>> /\ \E e \in EntityIds, comps \in ComponentArgs : SpawnAt(e, comps)
    \/ Idle /\ UNCHANGED <<scan, fields>> /\ \E e \in EntityIds : Despawn(e)
    \/ Idle /\ UNCHANGED <<scan, fields>> /\ Clear
    \/ Idle /\ UNCHANGED <<scan, fields>> /\ \E e \in EntityIds, comps \in ComponentArgs : Insert(e, comps)
    \/ Idle /\ UNCHANGED <<scan, fields>> /\ \E e \in EntityIds, types \in TypeArgs : Remove(e, types)
    \/ Idle /\ UNCHANGED <<scan, fields>> /\ \E e \in EntityIds : Take(e)
    \/ Idle /\ UNCHANGED <<scan, fields>> /\ \E e \in EntityIds : ContainsCall(e)
    \/ Idle /\ UNCHANGED <<scan, fields>>
            /\ \E types \in TypeArgs, has \in FilterArgs, without \in FilterArgs :
                    Find(types, has, without)
    \/ Idle /\ UNCHANGED <<scan, fields>>
            /\ \E e \in EntityIds, types \in TypeArgs, has \in FilterArgs,
                  without \in FilterArgs : FindOn(e, types, has, without)
    \/ Idle /\ UNCHANGED <<scan, fields>> /\ \E e \in EntityIds, t \in Types : Get(e, t)
    \/ Idle /\ UNCHANGED <<scan, fields>>
            /\ \E e \in EntityIds, has \in FilterArgs, without \in FilterArgs :
                    Satisfies(e, has, without)
    \/ Idle /\ UNCHANGED <<scan, fields>> /\ \E e \in EntityIds : IsEmpty(e)
    \/ Idle /\ UNCHANGED <<scan, fields>> /\ Iter
    \/ Idle /\ UNCHANGED <<scan, fields>> /\ IterEvery
    \/ Return /\ UNCHANGED <<scan, fields>>

Spec == Init /\ [][Next]_vars

-----------------------------------------------------------------------------
(* A handle returned by find, consumed one element at a time               *)
(*                                                                         *)
(* find is a generator function: the call returns a handle and runs none   *)
(* of the body; each request for an element runs the body up to its next   *)
(* yield.  The loop walks self.entities.values(), so the handle holds a    *)
(* dict iterator, made when the first element is requested.  iter and      *)
(* iter_every are generator functions with the same loop, over             *)
(* self.entities.items(); find_on is one with no loop.  That iterator *)
(* refuses to go on once the dict has another size than when it was made;  *)
(* interpreters from CPython 3.8 on also refuse to hand out more entries   *)
(* than that size (setup.py admits older ones).  A deletion leaves a hole, *)
(* a new key goes to the end, and adding a key may rebuild the table       *)
(* without its holes, after which the iterator's index lies further along. *)

\* A call that returns a handle: find, find_on, iter or iter_every.
ScanQuery(op, e, types, without) ==
    [op |-> op, entity |-> e, types |-> types, has |-> FNone,
     without |-> without]

\* The calls whose handle is kept open.
ScanQueries ==
    {ScanQuery("find", NoEntity, <<"Position">>, FNone),
     ScanQuery("find", NoEntity, <<>>, FType("Position")),
     ScanQuery("iter", NoEntity, <<>>, FNone),
     ScanQuery("iter_every", NoEntity, <<>>, FNone)}
        \cup {ScanQuery("find_on", e, <<"Position">>, FNone) : e \in EntityIds}

\* The *components argument lists of the calls made around an open handle.
ScanComponentArgs == {<<>>, <<"p1">>}

\* The *component_types argument lists of remove around an open handle.
ScanTypeArgs == {<<"Position">>}

\* One pass of the loop body: find tests the entry, iter and iter_every
\* yield for every entry.
LoopYields(s, ie) ==
    s.op = "find" =>
        FindYields(ie, s.types, Normalize(s.has), Normalize(s.without))

\* What the loop body yields for an entry.
LoopTuple(s, ie) ==
    IF s.op = "find" THEN ResultTuple(ie, s.types)
    ELSE IF s.op = "iter" THEN [entity |-> ie.entity, comps |-> <<>>]
    ELSE [entity |-> ie.entity, comps |-> Values(ie.components)]

\* The entities for which the handle yields in the World es.
Yieldable(s, es) ==
    IF s.op = "find_on"
    THEN {e \in Keys(es) \cap {s.entity} :
            FindOn_(es, e, s.types, s.has, s.without).ret # <<>>}
    ELSE {es[i].entity : i \in {i \in DOMAIN es : LoopYields(s, es[i])}}

\* `for internal_entity in self.entities.values()`: the iterator is made.
StartLoop(s, es) ==
    [s EXCEPT !.used = Len(es), !.left = Len(es), !.pos = 0,
              !.stable = Yieldable(s, es)]

\* The generator ends with a fault; the handle is finished.
Raise(s, fault) == [s EXCEPT !.state = "done", !.fault = fault]

\* The body of find, iter or iter_every from the head of its loop up to the
\* next yield, or to the end of the generator: the iterator's size check, the end of the
\* dict, the count of entries handed out, then the loop body.
RECURSIVE Resume(_, _)
Resume(s, es) ==
    IF s.used # Len(es) THEN Raise(s, "RuntimeError")
    ELSE IF s.pos >= Len(es)
    THEN [s EXCEPT !.state = "done", !.stopped = TRUE]
    ELSE IF s.keysChecked /\ s.left = 0 THEN Raise(s, "RuntimeError")
    ELSE LET ie == es[s.pos + 1]
             t == [s EXCEPT !.pos = @ + 1,
                            !.left = IF @ > 0 THEN @ - 1 ELSE 0]
         IN IF LoopYields(s, ie)
            THEN [t EXCEPT !.state = "running",
                           !.yielded = Append(@, LoopTuple(s, ie))]
            ELSE Resume(t, es)

\* The body of find_on up to its next yield or to its end: it runs from its
\* first statement when the first element is requested, and has nothing
\* left but `yield from []` once it has yielded.
ResumeOn(s, es) ==
    IF s.state = "running" THEN [s EXCEPT !.state = "done", !.stopped = TRUE]
    ELSE LET r == FindOn_(es, s.entity, s.types, s.has, s.without) IN
         IF r.fault # "none" THEN Raise(s, r.fault)
         ELSE IF r.ret = <<>> THEN [s EXCEPT !.state = "done", !.stopped = TRUE]
         ELSE [s EXCEPT !.state = "running", !.yielded = r.ret,
                        !.stable = {s.entity}]

\* Where the iterator stands once a World call has turned es into es2: the
\* entries it had passed and that remain are still behind it; when a key
\* was added, any number of the entries ahead may now lie behind it too.
PlacesAfter(s, es, es2) ==
    LET kept == Cardinality({i \in 1 .. s.pos : es[i].entity \in Keys(es2)})
    IN IF Keys(es2) \subseteq Keys(es) THEN {kept} ELSE kept .. Len(es2)

\* The handle after a World call that turned es into es2.
AfterCall(s, es, es2) ==
    IF s.state = "none" THEN {s}
    ELSE IF s.state = "created" THEN {[s EXCEPT !.calls = @ + 1]}
    ELSE IF s.op = "find_on"
    THEN {[s EXCEPT !.calls = @ + 1, !.stable = @ \cap Yieldable(s, es2)]}
    ELSE {[s EXCEPT !.calls = @ + 1,
                    !.pos = p,
                    !.added = @ + Cardinality(Keys(es2) \ Keys(es)),
                    !.stable = @ \cap Yieldable(s, es2)] :
             p \in PlacesAfter(s, es, es2)}

\* A World call may be made: no handle is held, or one that is not finished.
MayCall ==
    \/ scan.state = "none"
    \/ scan.state \in {"created", "running"} /\ scan.calls < MaxScanCalls

\* A World call made around the handle: the World changes as the call says.
Around(es2, id2, issued2) ==
    /\ entities' = es2
    /\ next_entity_id' = id2
    /\ issued' = issued2
    /\ scan' \in AfterCall(scan, entities, es2)
    /\ UNCHANGED <<last, fields>>

ScanSpawn(comps) ==
    /\ MayCall
    /\ Len(issued) < MaxSpawns
    /\ Around(SetEntity(entities, InternalEntity(NewEntityId, comps)),
              Advance(next_entity_id), Append(issued, NewEntityId))

ScanSpawnAt(e, comps) ==
    /\ MayCall
    /\ Around(SetEntity(entities, InternalEntity(e, comps)),
              next_entity_id, issued)

ScanDespawn(e) ==
    /\ MayCall
    /\ Around(Despawn_(entities, e).entities, next_entity_id, issued)

ScanClear ==
    /\ MayCall
    /\ Around(<<>>, next_entity_id, issued)

ScanInsert(e, comps) ==
    /\ MayCall
    /\ Around(Insert_(entities, e, comps).entities, next_entity_id, issued)

ScanRemove(e, types) ==
    /\ MayCall
    /\ Around(Remove_(entities, e, types).entities, next_entity_id, issued)

ScanTake(e) ==
    /\ MayCall
    /\ Around(Take_(entities, e).entities, next_entity_id, issued)

\* world.find(...), find_on(...), iter() or iter_every(): the handle is
\* returned, the body has not started.  find_on makes no dict iterator.
FindCall(q, checked) ==
    /\ scan.state = "none"
    /\ q.op = "find_on" => ~checked
    /\ scan' = [NoScan EXCEPT !.state = "created", !.op = q.op,
                              !.entity = q.entity, !.types = q.types,
                              !.has = q.has, !.without = q.without,
                              !.keysChecked = checked,
                              !.atCall = Len(entities)]
    /\ UNCHANGED <<next_entity_id, entities, issued, last, fields>>

ExhaustedRestarts(s, es) ==
    Resume(StartLoop([s EXCEPT !.fault = "none", !.stopped = FALSE], es), es)

\* next(handle) on a finished generator: StopIteration, and nothing else.
Exhausted(s, es) == [s EXCEPT !.stopped = TRUE]

\* next(handle): the body runs to its next yield or to its end.
FindNext ==
    /\ scan.state # "none"
    /\ scan' = IF scan.state = "done" THEN Exhausted(scan, entities)
               ELSE IF scan.op = "find_on" THEN ResumeOn(scan, entities)
               ELSE IF scan.state = "created"
               THEN Resume(StartLoop(scan, entities), entities)
               ELSE Resume(scan, entities)
    /\ UNCHANGED <<next_entity_id, entities, issued, last, fields>>

\* The finished handle is dropped.
Drop ==
    /\ scan.state = "done"
    /\ scan' = NoScan
    /\ UNCHANGED <<next_entity_id, entities, issued, last, fields>>

NextScan ==
    \/ \E comps \in ScanComponentArgs : ScanSpawn(comps)
    \/ \E e \in EntityIds, comps \in ScanComponentArgs : ScanSpawnAt(e, comps)
    \/ \E e \in EntityIds : ScanDespawn(e)
    \/ ScanClear
    \/ \E e \in EntityIds, comps \in ScanComponentArgs : ScanInsert(e, comps)
    \/ \E e \in EntityIds, types \in ScanTypeArgs : ScanRemove(e, types)
    \/ \E e \in EntityIds : ScanTake(e)
    \/ \E q \in ScanQueries, checked \in BOOLEAN : FindCall(q, checked)
    \/ FindNext
    \/ Drop

SpecScan == Init /\ [][NextScan]_vars

-----------------------------------------------------------------------------
(* Component objects changed in place by the caller                        *)

\* The *components argument lists of the calls made in SpecLive.
LiveComponentArgs == {<<"p1">>, <<"p2">>, <<"p1", "v1">>}

\* The *component_types argument lists of find and find_on in SpecLive.
LiveTypeArgs == {<<"Position">>, <<"Velocity", "Position">>}

\* The component objects that the call that has returned handed back.
Held(call) ==
    IF call.op = "get" THEN {call.ret} \ {"None"}
    ELSE IF call.op \in {"find", "find_on"}
    THEN {call.ret[i].comps[k] : i \in DOMAIN call.ret, k \in DOMAIN call.types}
    ELSE {}

\* `pos.x += vel.vx`: the caller assigns to a field of an object it was
\* handed; no World method is called.
Mutate(c) ==
    /\ c \in Held(last)
    /\ fields' = [fields EXCEPT ![c] = 1 - @]
    /\ UNCHANGED <<next_entity_id, entities, issued, last, scan>>

NextLive ==
    \/ Idle /\ UNCHANGED <<scan, fields>>
            /\ \E comps \in LiveComponentArgs : Spawn(comps)
    \/ Idle /\ UNCHANGED <<scan, fields>>
            /\ \E e \in EntityIds, comps \in LiveComponentArgs : Insert(e, comps)
    \/ Idle /\ UNCHANGED <<scan, fields>> /\ \E e \in EntityIds : Despawn(e)
    \/ Idle /\ UNCHANGED <<scan, fields>>
            /\ \E e \in EntityIds, t \in Types : Get(e, t)
    \/ Idle /\ UNCHANGED <<scan, fields>>
            /\ \E types \in LiveTypeArgs : Find(types, FNone, FNone)
    \/ Idle /\ UNCHANGED <<scan, fields>>
            /\ \E e \in EntityIds, types \in LiveTypeArgs :
                    FindOn(e, types, FNone, FNone)
    \/ \E c \in Components : Mutate(c)
    \/ Return /\ UNCHANGED <<scan, fields>>

SpecLive == Init /\ [][NextLive]_vars

-----------------------------------------------------------------------------
(* The matching rule of the specification (section 4.4), on sets of types *)

Registered(e) == e \in Keys(entities)

ComponentMap(e) == Lookup(entities, e).components

TypesIn(cs) == {p[1] : p \in cs}

ListedTypes(ts) == {ts[i] : i \in DOMAIN ts}

\* R, H and W are checked independently; None and the empty list ask nothing.
Matches(cs, types, has, without) ==
    /\ ListedTypes(types) \subseteq TypesIn(cs)
    /\ ListedTypes(has.ts) \subseteq TypesIn(cs)
    /\ ListedTypes(without.ts) \cap TypesIn(cs) = {}

MatchingEntities(types, has, without) ==
    {e \in Keys(entities) : Matches(ComponentMap(e), types, has, without)}

-----------------------------------------------------------------------------
(* Claims *)

\* C1: no two entities returned by spawn on one World are equal, whatever
\* despawn, take, clear, insert and remove calls come between the spawns.
C1_SpawnedEntitiesDistinct ==
    \A i, j \in DOMAIN issued : i # j => issued[i] # issued[j]

\* A second spawn has just returned and the first spawned entity is gone.
C1_Witness ==
    /\ last.op = "spawn"
    /\ Len(issued) = 2
    /\ issued[1] \notin Keys(entities)

\* C2: the k-th spawn (from 0) returns identifier k; next_entity_id is the
\* number of spawn calls made and exceeds every identifier spawn returned.
C2_SpawnCountsFromZero ==
    /\ next_entity_id = Len(issued)
    /\ \A k \in DOMAIN issued : issued[k] = k - 1 /\ issued[k] < next_entity_id

\* spawn has just returned 1 although spawn_at had registered 1 before the
\* first spawn (entity 1 precedes entity 0 in the mapping).
C2_Witness ==
    /\ last.op = "spawn"
    /\ last.ret = 1
    /\ Len(entities) = 2
    /\ entities[1].entity = 1

\* C3: a full find(*R, has=H, without=W) yields one tuple for each registered
\* entity whose component map holds every type of R and of H and no type of
\* W, and for no other entity.
C3_FindYieldsExactlyMatches ==
    last.op = "find" =>
        /\ last.fault = "none"
        /\ {last.ret[i].entity : i \in DOMAIN last.ret}
              = MatchingEntities(last.types, last.has, last.without)
        /\ Len(last.ret)
              = Cardinality(MatchingEntities(last.types, last.has, last.without))

\* find(Position, has=[Position, Velocity]) has yielded one of two entities.
C3_Witness ==
    /\ last.op = "find"
    /\ last.types = <<"Position">>
    /\ last.has = FList(<<"Position", "Velocity">>)
    /\ Len(last.ret) = 1
    /\ Len(entities) = 2

\* C4: find_on(entity, *R, has=H, without=W) yields exactly one result when
\* the entity is registered and passes the checks on R, H and W, and yields
\* nothing otherwise.
C4_FindOnAppliesMatchingRule ==
    last.op = "find_on" =>
        last.ret =
            IF /\ Registered(last.entity)
               /\ Matches(ComponentMap(last.entity), last.types, last.has,
                          last.without)
            THEN <<ResultTuple(Lookup(entities, last.entity), last.types)>>
            ELSE <<>>

\* C5: get, find_on and satisfies on an entity that is not registered give
\* None / nothing / False and raise no fault.
C5_ReadsOfMissingEntityDoNotFault ==
    (last.op \in {"get", "find_on", "satisfies"} /\ ~Registered(last.entity)) =>
        /\ last.fault = "none"
        /\ CASE last.op = "get" -> last.ret = "None"
             [] last.op = "find_on" -> last.ret = <<>>
             [] last.op = "satisfies" -> last.ret = FALSE

\* C6: contains(e) is true right after e = spawn(...) and after
\* spawn_at(e, ...), false after despawn(e) and after clear(), and in general
\* true exactly when e is a key of the entity mapping.
C6_ContainsFollowsRegistration ==
    /\ last.op = "spawn" => Contains(entities, last.ret)
    /\ last.op = "spawn_at" => Contains(entities, last.entity)
    /\ last.op = "despawn" => ~Contains(entities, last.entity)
    /\ last.op = "clear" => \A e \in EntityIds : ~Contains(entities, e)
    /\ last.op = "contains" =>
          (last.ret <=> \E i \in DOMAIN entities : entities[i].entity = last.entity)

\* contains has just answered False for an entity that spawn had returned.
C6_Witness ==
    /\ last.op = "contains"
    /\ last.ret = FALSE
    /\ \E k \in DOMAIN issued : issued[k] = last.entity

\* C7: despawn(e) on a registered e removes e with its component map, keeps
\* every other entity as it was and returns None; on an unregistered e it
\* returns NoSuchEntity and changes neither the mapping nor the allocator.
C7_DespawnRemovesOrSignals ==
    [][last'.op = "despawn" =>
        \A e \in EntityIds : Despawn(e) =>
            /\ next_entity_id' = next_entity_id
            /\ IF Registered(e)
               THEN /\ last'.ret = "None"
                    /\ Keys(entities') = Keys(entities) \ {e}
                    /\ Len(entities') = Len(entities) - 1
                    /\ \A x \in Keys(entities') :
                          Lookup(entities', x) = Lookup(entities, x)
               ELSE /\ last'.ret = "NoSuchEntity"
                    /\ entities' = entities]_vars

\* despawn of an unregistered entity has signalled NoSuchEntity in a World
\* that holds entities.
C7_Witness ==
    /\ last.op = "despawn"
    /\ last.ret = "NoSuchEntity"
    /\ entities # <<>>
    /\ next_entity_id > 0

\* C8: after insert(e, c...) on a registered e, get(e, type(c)) returns the
\* last c of that type that was inserted, and no component map ever holds two
\* values of one type.
C8_InsertThenGetLastWrite ==
    /\ (last.op = "insert" /\ last.ret = "None") =>
          \A i \in DOMAIN last.comps :
              (\A j \in DOMAIN last.comps :
                    j > i => TypeOf(last.comps[j]) # TypeOf(last.comps[i]))
              => Get_(entities, last.entity, TypeOf(last.comps[i])) = last.comps[i]
    /\ \A k \in DOMAIN entities :
          \A p, q \in entities[k].components : p[1] = q[1] => p = q

\* insert(e, p1, p2) has returned: two values of one type, the second stays.
C8_Witness ==
    /\ last.op = "insert"
    /\ last.ret = "None"
    /\ last.comps = <<"p1", "p2">>
    /\ Get_(entities, last.entity, "Position") = "p2"

\* C9: insert on an entity that is not registered returns NoSuchEntity and
\* changes nothing: the entity is not created, the mapping and the allocator
\* stay as they were.
C9_InsertOnMissingEntity ==
    [][last'.op = "insert" =>
        \A e \in EntityIds, comps \in ComponentArgs :
            (~Registered(e) /\ Insert(e, comps)) =>
                /\ last'.ret = "NoSuchEntity"
                /\ e \notin Keys(entities')
                /\ entities' = entities
                /\ next_entity_id' = next_entity_id]_vars

\* insert of components on an unregistered entity has signalled NoSuchEntity
\* in a World that holds entities.
C9_Witness ==
    /\ last.op = "insert"
    /\ last.ret = "NoSuchEntity"
    /\ last.comps # <<>>
    /\ entities # <<>>

\* C10: remove(e, T...) deletes from e's component map exactly the named
\* types, ignores a named type that is absent, does nothing and raises nothing
\* for an unregistered e, and a second identical call changes nothing more.
C10_RemoveExactAndIdempotent ==
    [][last'.op = "remove" =>
        \A e \in EntityIds, types \in TypeArgs : Remove(e, types) =>
            /\ last'.fault = "none"
            /\ next_entity_id' = next_entity_id
            /\ Iter_(entities') = Iter_(entities)
            /\ \A x \in Keys(entities) :
                  Lookup(entities', x).components =
                      IF x = e
                      THEN {p \in ComponentMap(e) : p[1] \notin ListedTypes(types)}
                      ELSE ComponentMap(x)
            /\ ~Registered(e) => entities' = entities
            /\ Remove_(entities', e, types).entities = entities'
            /\ Remove_(entities', e, types).fault = "none"]_vars

\* remove(e, Velocity) has returned on a registered entity that holds a
\* Position.
C10_Witness ==
    /\ last.op = "remove"
    /\ last.types = <<"Velocity">>
    /\ Registered(last.entity)
    /\ TypesIn(ComponentMap(last.entity)) = {"Position"}

\* C11: find scans the entities in registration order, and each tuple is the
\* entity followed by its components of the types of R, in the order of R.
C11_FindOrderAndTupleShape ==
    last.op = "find" =>
        /\ \A i, j \in DOMAIN last.ret :
              i < j => IndexOf(entities, last.ret[i].entity)
                          < IndexOf(entities, last.ret[j].entity)
        /\ \A i \in DOMAIN last.ret :
              /\ Len(last.ret[i].comps) = Len(last.types)
              /\ \A k \in DOMAIN last.types :
                    <<last.types[k], last.ret[i].comps[k]>>
                        \in ComponentMap(last.ret[i].entity)

\* find(Velocity, Position) has yielded two entities, entity 1 before entity 0.
C11_Witness ==
    /\ last.op = "find"
    /\ last.types = <<"Velocity", "Position">>
    /\ Len(last.ret) = 2
    /\ last.ret[1].entity = 1
    /\ last.ret[2].entity = 0

\* C12: satisfies(e, has=H, without=W) is true exactly when e is registered,
\* holds every type of H and holds no type of W; a new entity with no
\* components satisfies no filter at all and fails has=T for every type T.
C12_SatisfiesIsHasWithoutRule ==
    /\ last.op = "satisfies" =>
          (last.ret <=>
              /\ Registered(last.entity)
              /\ Matches(ComponentMap(last.entity), <<>>, last.has, last.without))
    /\ (last.op = "spawn" /\ last.comps = <<>>) =>
          /\ Satisfies_(entities, last.ret, FNone, FNone)
          /\ \A t \in Types : ~Satisfies_(entities, last.ret, FType(t), FNone)

\* satisfies(e, has=Position, without=Velocity) has answered False for an
\* entity that holds both types.
C12_Witness ==
    /\ last.op = "satisfies"
    /\ last.has = FType("Position")
    /\ last.without = FType("Velocity")
    /\ Registered(last.entity)
    /\ TypesIn(ComponentMap(last.entity)) = {"Position", "Velocity"}
    /\ last.ret = FALSE

\* C13: take(e) on a registered e returns the component values e held and
\* leaves the World as despawn(e) does; on an unregistered e it returns an
\* empty collection, signals nothing and changes nothing.
C13_TakeReturnsAndRemoves ==
    [][last'.op = "take" =>
        \A e \in EntityIds : Take(e) =>
            /\ last'.fault = "none"
            /\ next_entity_id' = next_entity_id
            /\ ~Contains(entities', e)
            /\ entities' = Despawn_(entities, e).entities
            /\ IF Registered(e)
               THEN /\ last'.ret = {p[2] : p \in ComponentMap(e)}
                    /\ Keys(entities') = Keys(entities) \ {e}
               ELSE /\ last'.ret = {}
                    /\ entities' = entities]_vars

\* take has returned two components of an entity that is gone, while another
\* entity stays.
C13_Witness ==
    /\ last.op = "take"
    /\ last.ret = {"p2", "v1"}
    /\ ~Registered(last.entity)
    /\ entities # <<>>

\* C14: clear() removes every entity and component map and leaves the
\* allocator as it is: iter() then yields nothing, and every later spawn
\* returns an identifier above all those issued before.
C14_ClearKeepsAllocator ==
    [][/\ last'.op = "clear" =>
            (Clear => /\ entities' = <<>>
                      /\ Iter_(entities') = <<>>
                      /\ next_entity_id' = next_entity_id)
       /\ last'.op = "spawn" =>
            \A k \in DOMAIN issued : issued[k] < last'.ret]_vars

\* clear has returned after two spawns.
C14_Witness ==
    /\ last.op = "clear"
    /\ Len(issued) = 2
    /\ entities = <<>>

C16_MutationBetweenStepsRaisesNoFault ==
    /\ scan.op = "find" => scan.fault = "none"
    /\ \A i, j \in DOMAIN entities :
          entities[i].entity = entities[j].entity => i = j
    /\ \A i \in DOMAIN entities : \A p, q \in entities[i].components :
          /\ p[1] = TypeOf(p[2])
          /\ p[1] = q[1] => p = q

\* C17: whatever World calls run between the steps of one find sequence, an
\* entity that has been registered and matching at every moment since the
\* scan started is yielded at most once.
C17_StableEntityYieldedAtMostOnce ==
    scan.op = "find" =>
        \A e \in scan.stable :
            Cardinality({i \in DOMAIN scan.yielded :
                            scan.yielded[i].entity = e}) <= 1

\* A scan has ended without a fault after a despawn and a new registration
\* ran between its steps; it yielded two tuples, one of them for an entity
\* that was registered and matching all along.
C17_Witness ==
    /\ scan.op = "find"
    /\ scan.state = "done"
    /\ scan.fault = "none"
    /\ scan.calls > 1
    /\ scan.added > 0
    /\ Len(scan.yielded) > 1
    /\ \E e \in scan.stable : \E i \in DOMAIN scan.yielded :
            scan.yielded[i].entity = e

\* C18, as stated: a handle yields at most as many tuples as there were
\* entities registered when find was called, also when World calls run
\* between that call and the first request for an element.
C18_BoundedByCountAtCall ==
    scan.op = "find" => Len(scan.yielded) <= scan.atCall

\* C18, amended: the scan starts when the first element is requested.  A
\* handle yields at most as many tuples as there were entities registered at
\* that moment plus the entities registered after it; with no World call
\* since find was called that is at most the number registered at the call;
\* and a finished handle yields nothing more.
C18_BoundedByCountAtStart ==
    [][scan'.op = "find" =>
        /\ Len(scan'.yielded) <= scan'.used + scan'.added
        /\ scan'.calls = 0 => Len(scan'.yielded) <= scan'.atCall
        /\ (scan.state = "done" /\ scan'.state = "done") =>
               scan'.yielded = scan.yielded]_vars

\* A handle made on a World with fewer entities than it went on to yield has
\* come to its end: the last request was answered with StopIteration.
C18_Witness ==
    /\ scan.op = "find"
    /\ scan.state = "done"
    /\ scan.stopped
    /\ scan.fault = "none"
    /\ Len(scan.yielded) > scan.atCall
    /\ Len(scan.yielded) = scan.used

\* C19: get(e, T) returns the component stored under T on e when e is
\* registered and holds T, and None otherwise, for a missing entity and for a
\* missing type alike.
C19_GetReturnsStoredOrNone ==
    last.op = "get" =>
        /\ last.fault = "none"
        /\ IF Registered(last.entity)
              /\ last.types[1] \in TypesIn(ComponentMap(last.entity))
           THEN <<last.types[1], last.ret>> \in ComponentMap(last.entity)
           ELSE last.ret = "None"

\* get has returned None for an unregistered entity while a registered one
\* holds a component of the type asked for.
C19_Witness ==
    /\ last.op = "get"
    /\ last.ret = "None"
    /\ ~Registered(last.entity)
    /\ \E x \in Keys(entities) : last.types[1] \in TypesIn(ComponentMap(x))

\* C20: is_empty(e) is true exactly when e is registered and its component
\* map is empty: true after spawn(), false after an insert of components,
\* true again after their removal, false for an unregistered entity.
C20_IsEmptyIffRegisteredAndBare ==
    /\ last.op = "is_empty" =>
          (last.ret <=> (Registered(last.entity) /\ ComponentMap(last.entity) = {}))
    /\ (last.op = "spawn" /\ last.comps = <<>>) => IsEmpty_(entities, last.ret)
    /\ (last.op = "insert" /\ last.ret = "None" /\ last.comps # <<>>) =>
          ~IsEmpty_(entities, last.entity)
    /\ (last.op = "remove" /\ Registered(last.entity)
            /\ ListedTypes(last.types) = Types) => IsEmpty_(entities, last.entity)
    /\ \A e \in EntityIds : ~Registered(e) => ~IsEmpty_(entities, e)

\* is_empty has answered False for an unregistered entity.
C20_Witness ==
    /\ last.op = "is_empty"
    /\ last.ret = FALSE
    /\ ~Registered(last.entity)
    /\ entities # <<>>

\* C21: iter() yields every registered entity exactly once, unfiltered and in
\* registration order (a call never reorders the entities that stay
\* registered, and an entity that becomes registered comes after them);
\* iter_every() yields the same entities in the same order, each with all
\* the components it holds.
C21_IterYieldsAllInRegistrationOrder ==
    [][/\ \A i, j \in DOMAIN entities' :
            /\ i # j => entities'[i].entity # entities'[j].entity
            /\ (i < j /\ entities'[j].entity \in Keys(entities)) =>
                  /\ entities'[i].entity \in Keys(entities)
                  /\ IndexOf(entities, entities'[i].entity)
                        < IndexOf(entities, entities'[j].entity)
       /\ last'.op = "iter" =>
            /\ Len(last'.ret) = Cardinality(Keys(entities'))
            /\ \A i \in DOMAIN last'.ret : last'.ret[i] = entities'[i].entity
       /\ last'.op = "iter_every" =>
            /\ Len(last'.ret) = Cardinality(Keys(entities'))
            /\ \A i \in DOMAIN last'.ret :
                  /\ last'.ret[i].entity = entities'[i].entity
                  /\ last'.ret[i].entity = Iter_(entities')[i]
                  /\ last'.ret[i].comps =
                        {p[2] : p \in entities'[i].components}]_vars

\* iter() has yielded entity 1 before entity 0: entity 0 was despawned and
\* registered again by spawn_at, and one of the two holds no component.
C21_Witness ==
    /\ last.op = "iter"
    /\ last.ret = <<1, 0>>
    /\ \E i \in DOMAIN entities : entities[i].components = {}

\* C22: whatever World calls run between the steps of a handle of find,
\* find_on, iter or iter_every, each entity the handle yields is registered
\* at the moment it is yielded.
C22_YieldedEntityIsRegistered ==
    [][Len(scan'.yielded) > Len(scan.yielded) =>
          scan'.yielded[Len(scan'.yielded)].entity \in Keys(entities')]_vars

\* A handle of iter_every has yielded again after World calls ran between
\* its steps, and the entity it yielded first is registered no longer.
C22_Witness ==
    /\ scan.op = "iter_every"
    /\ scan.calls > 1
    /\ Len(scan.yielded) > 1
    /\ scan.yielded[1].entity \notin Keys(entities)
    /\ scan.yielded[Len(scan.yielded)].entity \in Keys(entities)

\* C23: no component (object reference) is held by the component maps of two
\* different entities, whatever the callers pass to spawn, spawn_at and
\* insert.
C23_NoComponentSharedAcrossEntities ==
    \A i, j \in DOMAIN entities :
        i # j => Values(entities[i].components)
                    \cap Values(entities[j].components) = {}

\* C25: spawn registers a new entity, also after spawn_at with identifiers
\* of the caller: the entity it returns was not registered before the call,
\* one entity more is registered after it, and every entity registered
\* before keeps its component map.
C25_SpawnRegistersNewEntity ==
    [][last'.op = "spawn" =>
        /\ last'.ret \notin Keys(entities)
        /\ Len(entities') = Len(entities) + 1
        /\ \A e \in Keys(entities) :
              /\ e \in Keys(entities')
              /\ Lookup(entities', e) = Lookup(entities, e)]_vars

\* C24: the components handed back by get, find and find_on are the stored
\* objects: once the caller has assigned to a field of one, with no call to
\* World, the component stored for that entity under that type holds the
\* new value, and get and find on that entity and type hand back an object
\* that holds it.
C24_ReturnedComponentsAreLive ==
    [][fields' # fields =>
        LET c == CHOOSE c \in Components : fields'[c] # fields[c]
            Live(e, t) ==
                /\ e \in Keys(entities')
                /\ HasType(Lookup(entities', e).components, t)
                /\ fields'[ComponentOf(Lookup(entities', e).components, t)]
                      = fields'[c]
                /\ fields'[Get_(entities', e, t)] = fields'[c]
                /\ \E i \in DOMAIN Find_(entities', <<t>>, FNone, FNone) :
                      /\ Find_(entities', <<t>>, FNone, FNone)[i].entity = e
                      /\ fields'[Find_(entities', <<t>>, FNone, FNone)[i].comps[1]]
                            = fields'[c]
        IN  /\ fields'[c] # fields[c]
            /\ last.op = "get" => Live(last.entity, last.types[1])
            /\ last.op \in {"find", "find_on"} =>
                  \A i \in DOMAIN last.ret, k \in DOMAIN last.types :
                      last.ret[i].comps[k] = c =>
                          Live(last.ret[i].entity, last.types[k])]_vars

\* The caller has changed the Position that find(Velocity, Position) handed
\* back for entity 0, and the Position of another entity is as it was.
C24_Witness ==
    /\ last.op = "find"
    /\ last.types = <<"Velocity", "Position">>
    /\ \E i \in DOMAIN last.ret :
          /\ last.ret[i].entity = 0
          /\ fields[last.ret[i].comps[2]] = 1
    /\ \E j \in DOMAIN entities :
          /\ entities[j].entity # 0
          /\ \E p \in entities[j].components :
                p[1] = "Position" /\ fields[p[2]] = 0

\* C26: insert, remove, despawn, take and spawn_at on an entity e leave every
\* other entity registered or not as it was, with the component map it had;
\* no call but spawn changes the allocator counter, and spawn does.
C26_OtherEntitiesAndAllocatorKept ==
    [][/\ last'.op \in {"insert", "remove", "despawn", "take", "spawn_at"} =>
            \A x \in EntityIds \ {last'.entity} :
                /\ x \in Keys(entities') <=> x \in Keys(entities)
                /\ x \in Keys(entities) =>
                      Lookup(entities', x) = Lookup(entities, x)
       /\ last'.op # "spawn" => next_entity_id' = next_entity_id
       /\ last'.op = "spawn" => next_entity_id' # next_entity_id]_vars

\* remove has taken both components from one entity, and the other entity
\* holds a Position and a Velocity.
C26_Witness ==
    /\ last.op = "remove"
    /\ Len(last.types) = 2
    /\ Registered(last.entity)
    /\ ComponentMap(last.entity) = {}
    /\ \E x \in Keys(entities) \ {last.entity} :
          TypesIn(ComponentMap(x)) = {"Position", "Velocity"}

\* C27: contains, get, satisfies, is_empty, find, find_on, iter and
\* iter_every, the sequences consumed to their end, leave the registered
\* entities, every component map and the allocator counter as they were.
C27_QueriesLeaveWorldUnchanged ==
    [][last'.op \in {"contains", "get", "satisfies", "is_empty", "find",
                     "find_on", "iter", "iter_every"} =>
          /\ entities' = entities
          /\ next_entity_id' = next_entity_id]_vars

\* find_on has yielded for one of two registered entities.
C27_Witness ==
    /\ last.op = "find_on"
    /\ last.fault = "none"
    /\ last.ret # <<>>
    /\ Len(entities) = 2

====
